---- MODULE Spec2Model ----
(***************************************************************************)
(* Model of the concurrent hierarchical aggregation of                     *)
(* src/clickup_analyzer.py: fetch_workspace_details fans out over spaces,  *)
(* fetch_space_details over folders, fetch_folder_details over lists, and  *)
(* fetch_list_details classifies the tasks of one list.                    *)
(*                                                                         *)
(* A call is named by its path of child positions: <<>> is the call of     *)
(* fetch_workspace_details, <<i>> the future submitted for the i-th space, *)
(* <<i,j>> for the j-th folder of that space, <<i,j,k>> for the k-th list. *)
(***************************************************************************)
EXTENDS Integers, Sequences, FiniteSets, TLC

\* ---------------------------------------------------------------- bounds
MaxSpaces == 2
MaxFolders == 2
MaxLists == 2
MaxTasks == 2
\* calls submitted to executors in one run (the size of the remote tree)
MaxNodes == 4
\* wall-clock readings 0..MaxClock (epoch millis, scaled)
MaxClock == 2
\* counters of fetch_workspace_details the completion rate is taken from
MaxRateTasks == 150

\* ---------------------------------------------------------------- remote data
\* identifiers the remote may return for children; the second occurrence of
\* an identifier in one listing is a duplicate child
Ids == {"a", "b"}

IdSeqs(n) ==
  {s \in UNION {[1..k -> Ids] : k \in 0..n} : Len(s) = 0 \/ s[1] = "a"}

\* task.get("due_date") of a task without due date
NoDue == "None"

\* tasks as the task listing returns them: status.type, due_date (a string of
\* digits or absent), priority
Tasks ==
  { [status |-> "Closed", due_date |-> "1",   priority |-> "urgent"],
    [status |-> "open",   due_date |-> "1",   priority |-> "normal"],
    [status |-> "done",   due_date |-> NoDue, priority |-> "high"] }

TaskSeqs(n) == UNION {[1..k -> Tasks] : k \in 0..n}

\* str.lower() on the status types of the model
Lower(s) ==
  CASE s = "Closed" -> "closed"
    [] s = "DONE" -> "done"
    [] OTHER -> s

\* int() on the due_date strings of the model
ParseInt(s) ==
  CASE s = "0" -> 0
    [] s = "1" -> 1
    [] s = "2" -> 2

\* truth value of task.get("due_date"): None and "" are falsy
Truthy(d) == d # NoDue /\ d # ""

\* ---------------------------------------------------------------- calls
Nodes ==
  {<<>>}
  \cup {<<i>> : i \in 1..MaxSpaces}
  \cup {<<i, j>> : i \in 1..MaxSpaces, j \in 1..MaxFolders}
  \cup {<<i, j, k>> : i \in 1..MaxSpaces, j \in 1..MaxFolders, k \in 1..MaxLists}

Root == <<>>
IsList(p) == Len(p) = 3
Inner == {p \in Nodes : Len(p) < 3}
ListNodes == {p \in Nodes : IsList(p)}

MaxKids(p) ==
  CASE Len(p) = 0 -> MaxSpaces
    [] Len(p) = 1 -> MaxFolders
    [] Len(p) = 2 -> MaxLists

VARIABLES
  st,        \* position of each call
  kids,      \* the children (spaces/folders/lists/tasks) the call's fetch returned
  acc,       \* the call's local counters
  consumed,  \* child positions whose future.result() the call has taken, in order
  readAt,    \* list calls: the clock reading taken for each task processed
  outcome,   \* how the call's own fetch was answered
  now,       \* wall clock
  task_completion_rate,  \* local of fetch_workspace_details (line 110)
  result,    \* return value of fetch_workspace_details
  run,       \* 1 in the first call of fetch_workspace_details, 2 in a repeated one
  remote,    \* the listings the remote gave the first call
  first,     \* what the first call returned
  pc,        \* position of the UI script
  deepseek_api_key,  \* line 15
  api_key,           \* line 284
  workspaces,        \* line 286
  workspace_id,      \* lines 288, 292
  workspace_data,    \* lines 299, 301, 314
  company_profile,   \* lines 319, 323
  recommendations    \* line 326

aggVars == <<st, kids, acc, consumed, readAt, outcome, now, task_completion_rate, result>>
runVars == <<run, remote, first>>
uiVars ==
  <<pc, deepseek_api_key, api_key, workspaces, workspace_id, workspace_data,
    company_profile, recommendations>>

vars == <<aggVars, runVars, uiVars>>

Zero ==
  [space_count |-> 0, folder_count |-> 0, list_count |-> 0, task_count |-> 0,
   completed_tasks |-> 0, overdue_tasks |-> 0, high_priority_tasks |-> 0]

\* no value returned yet
NoResult == [pending |-> TRUE]

\* Python's None, among dicts and among strings
NoneValue == [none |-> TRUE]
PyNone == "None"
\* a name that was never assigned
Unbound == "<unbound>"

\* the futures submitted for a listing: one per entry, keyed by the future, so
\* two entries with the same identifier are two futures
\* one future per distinct identifier: later occurrences are skipped
Positions_Dedup(s) == {i \in 1..Len(s) : \A j \in 1..(i - 1) : s[j] # s[i]}

Positions(s) == 1..Len(s)

Children(p) == {Append(p, i) : i \in Positions(kids[p])}

Parent(p) == SubSeq(p, 1, Len(p) - 1)

Submitted == {p \in Nodes : st[p] # "idle"}

Finished(p) == st[p] \in {"done", "raised"}

Running(p) == st[p] \in {"folding", "unwind"}

\* ThreadPoolExecutor() without max_workers: min(32, os.cpu_count() + 4)
\* worker threads, which is 5 on a machine with one processor
PoolSize == 5

\* one executor for the whole traversal with a single worker thread
WorkerFree_SharedPool(p) ==
  p = Root \/ \A q \in Nodes \ {Root} : ~Running(q)

\* a submitted call starts when the executor of the call that submitted it
\* has a worker thread left; fetch_workspace_details runs in the caller
WorkerFree(p) ==
  p = Root \/ Cardinality({q \in Children(Parent(p)) : Running(q)}) < PoolSize

\* with executor: ... leaves through shutdown(wait=True)
Drained_NoWait(p) == TRUE

Drained(p) == \A q \in Children(p) : Finished(q)

\* the loop returns at its first turn
LoopDone_FirstTurn(p) ==
  IF Len(p) = 3 THEN Len(readAt[p]) = Len(kids[p])
  ELSE Len(kids[p]) = 0 \/ Len(consumed[p]) >= 1

\* the for loop of a call has run out of tasks / of futures
LoopDone(p) ==
  IF Len(p) = 3 THEN Len(readAt[p]) = Len(kids[p])
  ELSE Len(consumed[p]) = Cardinality(Positions(kids[p]))

\* ---------------------------------------------------------------- fetches
\* What requests.get(url).json() can meet: HTTP 200 with a JSON body that has
\* the array field or lacks it, a non-200 answer whose body is JSON (the
\* remote's error object) or is not, and a transport failure.
Responses(items) ==
  {[kind |-> "ok", json |-> TRUE, field |-> TRUE, items |-> s] : s \in items}
  \cup {[kind |-> "ok", json |-> TRUE, field |-> FALSE, items |-> <<>>],
        [kind |-> "rejected", json |-> TRUE, field |-> FALSE, items |-> <<>>],
        [kind |-> "rejected", json |-> FALSE, field |-> FALSE, items |-> <<>>],
        [kind |-> "transport", json |-> FALSE, field |-> FALSE, items |-> <<>>]}

\* a transport failure caught next to the request and read as an empty body
Raises_Swallowed(r) == r.kind # "transport" /\ ~r.json

\* requests.get(...) raises on a transport failure, .json() on a body that is
\* not JSON; the status code is never looked at
Raises(r) == r.kind = "transport" \/ ~r.json

\* What a fetch of call p can be answered: anything in the first call, within
\* the size of the tree; in a repeated call against the unchanged remote, what
\* the first call was answered
Answers(p, items) ==
  IF run = 2
    THEN {[kind |-> "ok", json |-> TRUE, field |-> TRUE, items |-> remote[p]]}
    ELSE {r \in Responses(items) :
            \/ Len(p) = 3
            \/ Cardinality({q \in Nodes : st[q] # "idle"}) + Len(r.items)
                 <= MaxNodes + 1}

\* body.get("<field>", [])
Listed(r) == IF r.field THEN r.items ELSE <<>>

\* ---------------------------------------------------------------- counters
\* the count a call takes from its own listing
OwnCount(p, n) ==
  CASE Len(p) = 0 -> [Zero EXCEPT !.space_count = n]
    [] Len(p) = 1 -> [Zero EXCEPT !.folder_count = n]
    [] Len(p) = 2 -> [Zero EXCEPT !.list_count = n]
    [] Len(p) = 3 -> [Zero EXCEPT !.task_count = n]

\* folder_count = ... where the code has folder_count += ...
FoldSpaceSteps_Overwrite(a, r) ==
  LET a1 == [a EXCEPT !.folder_count = r.folder_count]
      a2 == [a1 EXCEPT !.list_count = @ + r.list_count]
      a3 == [a2 EXCEPT !.task_count = @ + r.task_count]
      a4 == [a3 EXCEPT !.completed_tasks = @ + r.completed_tasks]
      a5 == [a4 EXCEPT !.overdue_tasks = @ + r.overdue_tasks]
      a6 == [a5 EXCEPT !.high_priority_tasks = @ + r.high_priority_tasks]
  IN <<a1, a2, a3, a4, a5, a6>>

\* completed_tasks is summed before task_count
FoldFolderSteps_CompletedFirst(a, r) ==
  LET a1 == [a EXCEPT !.list_count = @ + r.list_count]
      a2 == [a1 EXCEPT !.completed_tasks = @ + r.completed_tasks]
      a3 == [a2 EXCEPT !.task_count = @ + r.task_count]
      a4 == [a3 EXCEPT !.overdue_tasks = @ + r.overdue_tasks]
      a5 == [a4 EXCEPT !.high_priority_tasks = @ + r.high_priority_tasks]
  IN <<a1, a2, a3, a4, a5>>

\* the tasks of a list are added to the folder's count of lists as well
FoldListSteps_Recount(a, r) ==
  LET a1 == [a EXCEPT !.task_count = @ + r.task_count,
                      !.list_count = @ + r.task_count]
      a2 == [a1 EXCEPT !.completed_tasks = @ + r.completed_tasks]
      a3 == [a2 EXCEPT !.overdue_tasks = @ + r.overdue_tasks]
      a4 == [a3 EXCEPT !.high_priority_tasks = @ + r.high_priority_tasks]
  IN <<a1, a2, a3, a4>>

\* The accumulator after each statement of one turn of the as_completed loop,
\* in the order of the statements. The counters are locals of the calling
\* thread, so nothing else runs between two of the statements.
FoldSpaceSteps(a, r) ==
  LET a1 == [a EXCEPT !.folder_count = @ + r.folder_count]
      a2 == [a1 EXCEPT !.list_count = @ + r.list_count]
      a3 == [a2 EXCEPT !.task_count = @ + r.task_count]
      a4 == [a3 EXCEPT !.completed_tasks = @ + r.completed_tasks]
      a5 == [a4 EXCEPT !.overdue_tasks = @ + r.overdue_tasks]
      a6 == [a5 EXCEPT !.high_priority_tasks = @ + r.high_priority_tasks]
  IN <<a1, a2, a3, a4, a5, a6>>

FoldFolderSteps(a, r) ==
  LET a1 == [a EXCEPT !.list_count = @ + r.list_count]
      a2 == [a1 EXCEPT !.task_count = @ + r.task_count]
      a3 == [a2 EXCEPT !.completed_tasks = @ + r.completed_tasks]
      a4 == [a3 EXCEPT !.overdue_tasks = @ + r.overdue_tasks]
      a5 == [a4 EXCEPT !.high_priority_tasks = @ + r.high_priority_tasks]
  IN <<a1, a2, a3, a4, a5>>

FoldListSteps(a, r) ==
  LET a1 == [a EXCEPT !.task_count = @ + r.task_count]
      a2 == [a1 EXCEPT !.completed_tasks = @ + r.completed_tasks]
      a3 == [a2 EXCEPT !.overdue_tasks = @ + r.overdue_tasks]
      a4 == [a3 EXCEPT !.high_priority_tasks = @ + r.high_priority_tasks]
  IN <<a1, a2, a3, a4>>

FoldSteps(p, a, r) ==
  CASE Len(p) = 0 -> FoldSpaceSteps(a, r)
    [] Len(p) = 1 -> FoldFolderSteps(a, r)
    [] Len(p) = 2 -> FoldListSteps(a, r)

Last(s) == s[Len(s)]

\* the accumulator once the turn is over
FoldChild(p, a, r) == Last(FoldSteps(p, a, r))

IsCompleted(t) == Lower(t.status) \in {"closed", "done", "completed"}

\* only tasks that are not completed can be overdue
IsOverdue_OpenOnly(t, clock) ==
  Truthy(t.due_date) /\ ParseInt(t.due_date) < clock /\ ~IsCompleted(t)

IsOverdue(t, clock) == Truthy(t.due_date) /\ ParseInt(t.due_date) < clock

IsHighPriority(t) == t.priority \in {"urgent", "high"}

B2N(b) == IF b THEN 1 ELSE 0

\* a task past its due date is counted as high priority too
CountTask_EscalateOverdue(a, t, clock) ==
  [a EXCEPT !.completed_tasks = @ + B2N(IsCompleted(t)),
            !.overdue_tasks = @ + B2N(IsOverdue(t, clock)),
            !.high_priority_tasks =
               @ + B2N(IsHighPriority(t) \/ IsOverdue(t, clock))]

CountTask(a, t, clock) ==
  [a EXCEPT !.completed_tasks = @ + B2N(IsCompleted(t)),
            !.overdue_tasks = @ + B2N(IsOverdue(t, clock)),
            !.high_priority_tasks = @ + B2N(IsHighPriority(t))]

\* ---------------------------------------------------------------- floats
\* Python floats are IEEE-754 doubles. A double is kept as its 53-bit
\* significand, split into the upper 27 bits (hi) and the lower 26 bits (lo),
\* and its binary exponent e: the value is (hi * 2^26 + lo) * 2^(e - 53).
HiBits == 27
LoBits == 26
LimbBits == 13

RECURSIVE Pow2(_)
Pow2(k) == IF k = 0 THEN 1 ELSE 2 * Pow2(k - 1)

FZero == [e |-> 0, hi |-> 0, lo |-> 0]

\* stands for the ZeroDivisionError of a division by 0
ZeroDivision == [e |-> -1, hi |-> 0, lo |-> 0]

\* c / t scaled by a power of two into [1/2, 1): <<c', t', e>> with
\* c / t = (c' / t') * 2^e
RECURSIVE Normalise(_, _, _)
Normalise(c, t, e) ==
  IF c >= t THEN Normalise(c, 2 * t, e + 1)
  ELSE IF 2 * c < t THEN Normalise(2 * c, t, e - 1)
  ELSE <<c, t, e>>

\* long division: q extended by the next n bits of r / t (r < t), and the
\* remainder left
RECURSIVE QuotientBits(_, _, _, _)
QuotientBits(r, t, n, q) ==
  IF n = 0 THEN <<q, r>>
  ELSE IF 2 * r >= t THEN QuotientBits(2 * r - t, t, n - 1, 2 * q + 1)
  ELSE QuotientBits(2 * r, t, n - 1, 2 * q)

\* the significand plus one unit in the last place
NextUp(x) ==
  IF x.lo + 1 < Pow2(LoBits) THEN [x EXCEPT !.lo = @ + 1]
  ELSE IF x.hi + 1 < Pow2(HiBits) THEN [x EXCEPT !.hi = @ + 1, !.lo = 0]
  ELSE [e |-> x.e + 1, hi |-> Pow2(HiBits - 1), lo |-> 0]

\* round to nearest, ties to even: twice is the dropped part doubled, unit
\* the weight of the last kept bit
RoundEven(x, twice, unit) ==
  IF twice > unit \/ (twice = unit /\ x.lo % 2 = 1) THEN NextUp(x) ELSE x

\* the value of a one-element set: binds an intermediate result once
TheOne(S) == CHOOSE v \in S : TRUE

\* the double c / t of two non-negative integers
FDiv(c, t) ==
  IF t = 0 THEN ZeroDivision
  ELSE IF c = 0 THEN FZero
  ELSE TheOne({
         TheOne({
           TheOne({ RoundEven([e |-> n[3], hi |-> h[1], lo |-> l[1]],
                              2 * l[2], n[2]) :
                    l \in {QuotientBits(h[2], n[2], LoBits, 0)} }) :
           h \in {QuotientBits(n[1], n[2], HiBits, 0)} }) :
         n \in {Normalise(c, t, 0)} })

\* the exact product x * 100 in limbs of LimbBits bits, cut back to 53 bits
\* and rounded
Times100(x) ==
  LET B == Pow2(LimbBits)
      p0 == 100 * (x.lo % B)
      p1 == 100 * (x.lo \div B) + p0 \div B
      p2 == 100 * (x.hi % B) + p1 \div B
      p3 == 100 * (x.hi \div B) + p2 \div B
      d0 == p0 % B
      d1 == p1 % B
      d2 == p2 % B
      s == IF p3 >= Pow2(20) THEN 7 ELSE 6
      S == Pow2(s)
      kept == [e |-> x.e + s,
               hi |-> p3 * Pow2(LimbBits - s) + d2 \div S,
               lo |-> (d2 % S) * Pow2(LoBits - s) + d1 * Pow2(LimbBits - s)
                        + d0 \div S]
  IN RoundEven(kept, 2 * (d0 % S), S)

\* the double x * 100
FMul100(x) ==
  TheOne({ IF y = FZero \/ y = ZeroDivision THEN y
           ELSE Times100(y) : y \in {x} })

RateZero == FZero

\* the division without its guard
CompletionRate_NoGuard(a) == FMul100(FDiv(a.completed_tasks, a.task_count))

\* the ratio, not multiplied by 100
CompletionRate_Ratio(a) ==
  IF a.task_count > 0 THEN FDiv(a.completed_tasks, a.task_count) ELSE RateZero

\* (completed_tasks / task_count * 100) if task_count > 0 else 0: the
\* division is rounded to a double first, the product rounded again
CompletionRate(a) ==
  IF a.task_count > 0 THEN FMul100(FDiv(a.completed_tasks, a.task_count))
  ELSE RateZero

\* the dict fetch_workspace_details returns
Metrics(a) ==
  ("Spaces" :> a.space_count) @@ ("Folders" :> a.folder_count)
  @@ ("Lists" :> a.list_count) @@ ("Total Tasks" :> a.task_count)
  @@ ("Overdue Tasks" :> a.overdue_tasks)
  @@ ("High Priority Tasks" :> a.high_priority_tasks)

ErrorResult == [error |-> "Exception"]

\* ---------------------------------------------------------------- actions
NoListings == [p \in Nodes |-> <<>>]

\* no call of fetch_workspace_details is under way
NoCall ==
  /\ kids = NoListings
  /\ acc = [p \in Nodes |-> Zero]
  /\ consumed = [p \in Nodes |-> <<>>]
  /\ readAt = [p \in Nodes |-> <<>>]
  /\ outcome = [p \in Nodes |-> "none"]
  /\ task_completion_rate = RateZero
  /\ result = NoResult

Called == [p \in Nodes |-> IF p = Root THEN "queued" ELSE "idle"]

\* a team of the workspace mapping fetch_workspaces returns
TeamIds == <<"t1">>

\* the button handler has reached its call of fetch_workspace_details
InHandler ==
  /\ pc = "aggregate"
  /\ deepseek_api_key = ""
  /\ api_key = "pk"
  /\ workspaces = [ret |-> "dict", ids |-> TeamIds]
  /\ workspace_id = TeamIds[1]
  /\ workspace_data = NoneValue
  /\ company_profile = Unbound
  /\ recommendations = Unbound

\* fetch_workspace_details has just been called
Init ==
  /\ st = Called
  /\ NoCall
  /\ now \in 0..MaxClock
  /\ run = 1 /\ remote = NoListings /\ first = NoResult
  /\ InHandler

\* the handler of fetch_workspace_details returns what was counted so far
Fail_KeepPartial(p) ==
  IF p = Root
    THEN /\ st' = [st EXCEPT ![p] = "done"]
         /\ result' = Metrics(acc[Root])
    ELSE /\ st' = [st EXCEPT ![p] = "raised"]
         /\ UNCHANGED result

\* the exception of a call: caught by the try of fetch_workspace_details,
\* set on the future everywhere else
Fail(p) ==
  IF p = Root
    THEN /\ st' = [st EXCEPT ![p] = "done"]
         /\ result' = ErrorResult
    ELSE /\ st' = [st EXCEPT ![p] = "raised"]
         /\ UNCHANGED result

\* the listing fetch of a team, space or folder is answered; on success the
\* own count is taken and one future per child is submitted. Each call opens
\* its own ThreadPoolExecutor, whose default size (min(32, cpus + 4)) exceeds
\* the fan-out bounds here: a submitted child is picked up without waiting.
Fetch(p) ==
  /\ p \in Inner
  /\ st[p] = "queued"
  /\ WorkerFree(p)
  /\ \E r \in Answers(p, IdSeqs(MaxKids(p))) :
       /\ outcome' = [outcome EXCEPT ![p] = r.kind]
       /\ IF Raises(r)
            THEN /\ Fail(p)
                 /\ UNCHANGED <<kids, acc>>
            ELSE /\ kids' = [kids EXCEPT ![p] = Listed(r)]
                 /\ acc' = [acc EXCEPT ![p] = OwnCount(p, Len(Listed(r)))]
                 /\ st' = [q \in Nodes |->
                             IF q = p THEN "folding"
                             ELSE IF \E i \in Positions(Listed(r)) : q = Append(p, i)
                               THEN "queued"
                               ELSE st[q]]
                 /\ UNCHANGED result
  /\ UNCHANGED <<consumed, readAt, now, task_completion_rate>>
  /\ UNCHANGED <<runVars, uiVars>>

\* the task fetch of a list is answered
FetchList(p) ==
  /\ IsList(p)
  /\ st[p] = "queued"
  /\ WorkerFree(p)
  /\ \E r \in Answers(p, TaskSeqs(MaxTasks)) :
       /\ outcome' = [outcome EXCEPT ![p] = r.kind]
       /\ IF Raises(r)
            THEN /\ Fail(p)
                 /\ UNCHANGED <<kids, acc>>
            ELSE /\ kids' = [kids EXCEPT ![p] = Listed(r)]
                 /\ acc' = [acc EXCEPT ![p] = OwnCount(p, Len(Listed(r)))]
                 /\ st' = [st EXCEPT ![p] = "folding"]
                 /\ UNCHANGED result
  /\ UNCHANGED <<consumed, readAt, now, task_completion_rate>>
  /\ UNCHANGED <<runVars, uiVars>>

\* one accumulator shared down the tree: the list's worker adds each task to
\* the counters of the folder call as well
CountNextTask_Shared(p) ==
  /\ IsList(p)
  /\ st[p] = "folding"
  /\ Len(readAt[p]) < Len(kids[p])
  /\ acc' = [acc EXCEPT ![p] = CountTask(@, kids[p][Len(readAt[p]) + 1], now),
                        ![Parent(p)] = CountTask(@, kids[p][Len(readAt[p]) + 1], now)]
  /\ readAt' = [readAt EXCEPT ![p] = Append(@, now)]
  /\ UNCHANGED <<st, kids, consumed, outcome, now, task_completion_rate, result>>
  /\ UNCHANGED <<runVars, uiVars>>

\* one turn of the loop over the tasks of a list
CountNextTask(p) ==
  /\ IsList(p)
  /\ st[p] = "folding"
  /\ Len(readAt[p]) < Len(kids[p])
  /\ acc' = [acc EXCEPT ![p] = CountTask(@, kids[p][Len(readAt[p]) + 1], now)]
  /\ readAt' = [readAt EXCEPT ![p] = Append(@, now)]
  /\ UNCHANGED <<st, kids, consumed, outcome, now, task_completion_rate, result>>
  /\ UNCHANGED <<runVars, uiVars>>

\* as_completed yields a finished child future c of p and future.result()
\* returns the child's record, which is folded in
FoldResult(p, c) ==
  /\ p \in Inner
  /\ st[p] = "folding"
  /\ c \in Positions(kids[p])
  /\ \A i \in 1..Len(consumed[p]) : consumed[p][i] # c
  /\ st[Append(p, c)] = "done"
  /\ acc' = [acc EXCEPT ![p] = FoldChild(p, @, acc[Append(p, c)])]
  /\ consumed' = [consumed EXCEPT ![p] = Append(@, c)]
  /\ UNCHANGED <<st, kids, readAt, outcome, now, task_completion_rate, result>>
  /\ UNCHANGED <<runVars, uiVars>>

\* future.result() re-raises the child's exception: the loop is left and the
\* with block waits for the executor to shut down
ResultRaises(p, c) ==
  /\ p \in Inner
  /\ st[p] = "folding"
  /\ c \in Positions(kids[p])
  /\ \A i \in 1..Len(consumed[p]) : consumed[p][i] # c
  /\ st[Append(p, c)] = "raised"
  /\ st' = [st EXCEPT ![p] = "unwind"]
  /\ UNCHANGED <<kids, acc, consumed, readAt, outcome, now, task_completion_rate, result>>
  /\ UNCHANGED <<runVars, uiVars>>

\* executor.shutdown(wait=True) returns once every submitted child has
\* finished; the exception then leaves the call
Unwound(p) ==
  /\ p \in Inner
  /\ st[p] = "unwind"
  /\ Drained(p)
  /\ Fail(p)
  /\ UNCHANGED <<kids, acc, consumed, readAt, outcome, now, task_completion_rate>>
  /\ UNCHANGED <<runVars, uiVars>>

\* a space, folder or list call returns its record
Return(p) ==
  /\ p # Root
  /\ st[p] = "folding"
  /\ LoopDone(p)
  /\ st' = [st EXCEPT ![p] = "done"]
  /\ UNCHANGED <<kids, acc, consumed, readAt, outcome, now, task_completion_rate, result>>
  /\ UNCHANGED <<runVars, uiVars>>

\* fetch_workspace_details computes the rate and returns its dict
ReturnWorkspace ==
  /\ st[Root] = "folding"
  /\ LoopDone(Root)
  /\ task_completion_rate' = CompletionRate(acc[Root])
  /\ result' = Metrics(acc[Root])
  /\ st' = [st EXCEPT ![Root] = "done"]
  /\ UNCHANGED <<kids, acc, consumed, readAt, outcome, now>>
  /\ UNCHANGED <<runVars, uiVars>>

\* the wall clock advances
Tick ==
  /\ now < MaxClock
  /\ st[Root] \notin {"idle", "done"}
  /\ now' = now + 1
  /\ UNCHANGED <<st, kids, acc, consumed, readAt, outcome, task_completion_rate, result>>
  /\ UNCHANGED <<runVars, uiVars>>

Next ==
  \/ \E p \in Nodes : Fetch(p)
  \/ \E p \in Nodes : FetchList(p)
  \/ \E p \in Nodes : CountNextTask(p)
  \/ \E p \in Nodes : \E c \in 1..MaxSpaces + MaxFolders + MaxLists : FoldResult(p, c)
  \/ \E p \in Nodes : \E c \in 1..MaxSpaces + MaxFolders + MaxLists : ResultRaises(p, c)
  \/ \E p \in Nodes : Unwound(p)
  \/ \E p \in Nodes : Return(p)
  \/ ReturnWorkspace
  \/ Tick

Spec == Init /\ [][Next]_vars

\* ---------------------------------------------------------------- fairness
\* a step of the call itself: an answered fetch, a counted task, a consumed
\* future, a left executor or a return
Progress ==
  \/ \E p \in Nodes : Fetch(p) \/ FetchList(p) \/ CountNextTask(p)
  \/ \E p \in Nodes : \E c \in 1..MaxSpaces + MaxFolders + MaxLists :
       FoldResult(p, c) \/ ResultRaises(p, c)
  \/ \E p \in Nodes : Unwound(p) \/ Return(p)
  \/ ReturnWorkspace

\* The clock readings decide no branch but the overdue count, so the call is
\* followed with the clock standing still.
LiveInit == Init /\ now = 0

\* every issued fetch is answered or fails (requests returns or raises) and
\* a thread that can run is eventually run
LiveSpec == LiveInit /\ [][Progress]_vars /\ WF_vars(Progress)

\* ---------------------------------------------------------------- the rate alone
\* The counters fetch_workspace_details holds after its loop, drawn from all
\* values with completed_tasks <= task_count <= MaxRateTasks, and the
\* statement of line 110 applied to them.
RateInit ==
  /\ st = [p \in Nodes |-> IF p = Root THEN "folding" ELSE "idle"]
  /\ kids = NoListings
  /\ \E t \in 0..MaxRateTasks : \E c \in 0..t :
       acc = [p \in Nodes |->
                IF p = Root THEN [Zero EXCEPT !.task_count = t, !.completed_tasks = c]
                ELSE Zero]
  /\ consumed = [p \in Nodes |-> <<>>]
  /\ readAt = [p \in Nodes |-> <<>>]
  /\ outcome = [p \in Nodes |-> IF p = Root THEN "ok" ELSE "none"]
  /\ task_completion_rate = RateZero
  /\ result = NoResult
  /\ now = 0
  /\ run = 1 /\ remote = NoListings /\ first = NoResult
  /\ InHandler

RateNext == ReturnWorkspace

RateSpec == RateInit /\ [][RateNext]_vars

\* ---------------------------------------------------------------- two calls
\* fetch_workspace_details is called again (line 301 of the next script run)
\* after a first call in which every fetch succeeded; the remote is unchanged
CallAgain ==
  /\ run = 1
  /\ st[Root] = "done"
  /\ "error" \notin DOMAIN result
  /\ \A p \in Nodes : outcome[p] \in {"none", "ok"}
  /\ run' = 2
  /\ remote' = kids
  /\ first' = result
  /\ st' = Called
  /\ kids' = NoListings
  /\ acc' = [p \in Nodes |-> Zero]
  /\ consumed' = [p \in Nodes |-> <<>>]
  /\ readAt' = [p \in Nodes |-> <<>>]
  /\ outcome' = [p \in Nodes |-> "none"]
  /\ task_completion_rate' = RateZero
  /\ result' = NoResult
  /\ UNCHANGED <<now, uiVars>>

TwoCallsNext == Next \/ CallAgain

TwoCallsSpec == Init /\ [][TwoCallsNext]_vars

\* ---------------------------------------------------------------- the script
\* One run of the Streamlit script, top to bottom, with the button pressed or
\* not.
UnboundValue == [unbound |-> TRUE]

ModelText == "<text of the model>"
NoCompany == "No company information provided."
NoService == "No AI service available for generating company profile."
ProfileError == "Error fetching company details"
RecommendationsError == "AI recommendations are not available"

\* what requests.post to the LLM can meet: HTTP 200 with the expected body,
\* another status, or an exception (transport, body without choices)
LlmAnswers == {"200", "other", "raises"}

\* what fetch_workspaces returns: the dict of the teams, which is empty when
\* the remote lists none, or None after a non-200 answer or an exception
WorkspacesReturned ==
  {[ret |-> "dict", ids |-> TeamIds],
   [ret |-> "dict", ids |-> <<>>],
   [ret |-> "None", ids |-> <<>>]}

NoWorkspaces == [ret |-> Unbound, ids |-> <<>>]

\* truth value of what fetch_workspaces returned
TruthyDict(w) == w.ret = "dict" /\ Len(w.ids) > 0

get_company_info(company_name, answer) ==
  IF ~company_name THEN NoCompany
  ELSE IF Truthy(deepseek_api_key)
    THEN IF answer = "200" THEN ModelText ELSE ProfileError
    ELSE NoService

\* if deepseek_api_key: has no else branch: the function ends without return
get_ai_recommendations(answer) ==
  IF Truthy(deepseek_api_key)
    THEN IF answer = "200" THEN ModelText ELSE RecommendationsError
    ELSE PyNone

UIInit ==
  /\ st = [p \in Nodes |-> "idle"]
  /\ NoCall
  /\ now = 0
  /\ run = 1 /\ remote = NoListings /\ first = NoResult
  /\ pc = "start"
  /\ deepseek_api_key \in {PyNone, "sk"}
  /\ api_key = Unbound
  /\ workspaces = NoWorkspaces
  /\ workspace_id = Unbound
  /\ workspace_data = UnboundValue
  /\ company_profile = Unbound
  /\ recommendations = Unbound

\* line 284: the text input, empty or filled
ReadApiKey ==
  /\ pc = "start"
  /\ api_key' \in {"", "pk"}
  /\ pc' = "workspaces"
  /\ UNCHANGED <<deepseek_api_key, workspaces, workspace_id, workspace_data,
                 company_profile, recommendations>>
  /\ UNCHANGED <<aggVars, runVars>>

\* lines 285-292: the workspaces are fetched and one is selected; nothing is
\* assigned to workspace_id when fetch_workspaces returned None or {}
SelectWorkspace ==
  /\ pc = "workspaces"
  /\ IF api_key # ""
       THEN \E w \in WorkspacesReturned :
              /\ workspaces' = w
              /\ IF TruthyDict(w)
                   THEN \E i \in 1..Len(w.ids) : workspace_id' = w.ids[i]
                   ELSE UNCHANGED workspace_id
       ELSE /\ workspace_id' = PyNone
            /\ UNCHANGED workspaces
  /\ pc' = "button"
  /\ UNCHANGED <<deepseek_api_key, api_key, workspace_data, company_profile,
                 recommendations>>
  /\ UNCHANGED <<aggVars, runVars>>

\* line 297: the button was not pressed in this run of the script
NotPressed ==
  /\ pc = "button"
  /\ pc' = "end"
  /\ UNCHANGED <<deepseek_api_key, api_key, workspaces, workspace_id,
                 workspace_data, company_profile, recommendations>>
  /\ UNCHANGED <<aggVars, runVars>>

\* line 297: the button was pressed
Pressed ==
  /\ pc = "button"
  /\ pc' = "handler"
  /\ UNCHANGED <<deepseek_api_key, api_key, workspaces, workspace_id,
                 workspace_data, company_profile, recommendations>>
  /\ UNCHANGED <<aggVars, runVars>>

\* lines 298-301 and 313: api_key and workspace_id; reading a name that was
\* never assigned raises NameError, which ends the run of the script
ReadWorkspaceId ==
  /\ pc = "handler"
  /\ IF api_key = ""
       THEN /\ workspace_data' = NoneValue
            /\ pc' = "profile"
            /\ UNCHANGED aggVars
       ELSE IF workspace_id = Unbound
         THEN /\ pc' = "NameError"
              /\ UNCHANGED <<workspace_data, aggVars>>
         ELSE IF Truthy(workspace_id)
           THEN /\ workspace_data' = NoneValue
                /\ st' = Called
                /\ pc' = "aggregate"
                /\ UNCHANGED <<kids, acc, consumed, readAt, outcome, now,
                               task_completion_rate, result>>
           ELSE /\ workspace_data' = NoneValue
                /\ pc' = "profile"
                /\ UNCHANGED aggVars
  /\ UNCHANGED <<deepseek_api_key, api_key, workspaces, workspace_id,
                 company_profile, recommendations>>
  /\ UNCHANGED runVars

\* line 301: fetch_workspace_details has returned
TakeWorkspaceData ==
  /\ pc = "aggregate"
  /\ st[Root] = "done"
  /\ workspace_data' = result
  /\ pc' = "profile"
  /\ UNCHANGED <<deepseek_api_key, api_key, workspaces, workspace_id,
                 company_profile, recommendations>>
  /\ UNCHANGED <<aggVars, runVars>>

\* lines 317-323
CompanyProfile ==
  /\ pc = "profile"
  /\ \E company_name \in BOOLEAN : \E answer \in LlmAnswers :
       company_profile' = get_company_info(company_name, answer)
  /\ pc' = "recommend"
  /\ UNCHANGED <<deepseek_api_key, api_key, workspaces, workspace_id,
                 workspace_data, recommendations>>
  /\ UNCHANGED <<aggVars, runVars>>

\* lines 325-327
Recommend ==
  /\ pc = "recommend"
  /\ \E answer \in LlmAnswers : recommendations' = get_ai_recommendations(answer)
  /\ pc' = "end"
  /\ UNCHANGED <<deepseek_api_key, api_key, workspaces, workspace_id,
                 workspace_data, company_profile>>
  /\ UNCHANGED <<aggVars, runVars>>

UINext ==
  \/ ReadApiKey
  \/ SelectWorkspace
  \/ NotPressed
  \/ Pressed
  \/ ReadWorkspaceId
  \/ Next
  \/ TakeWorkspaceData
  \/ CompanyProfile
  \/ Recommend

UISpec == UIInit /\ [][UINext]_vars

TypeOK ==
  /\ st \in [Nodes -> {"idle", "queued", "folding", "unwind", "done", "raised"}]
  /\ now \in 0..MaxClock

\* ---------------------------------------------------------------- properties
RECURSIVE SumFn(_, _)
SumFn(f, S) ==
  IF S = {} THEN 0
  ELSE LET x == CHOOSE y \in S : TRUE IN f[x] + SumFn(f, S \ {x})

Fields == DOMAIN Zero

Returned == st[Root] = "done"
Success == Returned /\ "error" \notin DOMAIN result
Failed == Returned /\ "error" \in DOMAIN result

Level(k) == {p \in Submitted : Len(p) = k}

IsPrefix(p, q) == Len(p) <= Len(q) /\ SubSeq(q, 1, Len(p)) = p

\* every fetch issued at or below p was answered 200 with a JSON body
FetchesOkBelow(p) ==
  \A q \in Nodes : IsPrefix(p, q) => outcome[q] \in {"none", "ok"}

NumKids == [p \in Nodes |-> Len(kids[p])]

\* tasks of list call p that were overdue at the clock reading taken for them
OverdueSeen(p) ==
  {i \in 1..Len(readAt[p]) :
     kids[p][i].due_date # NoDue /\ ParseInt(kids[p][i].due_date) < readAt[p][i]}

CompletedSeen(p) ==
  {i \in 1..Len(readAt[p]) :
     Lower(kids[p][i].status) \in {"closed", "done", "completed"}}

HighSeen(p) ==
  {i \in 1..Len(readAt[p]) : kids[p][i].priority \in {"urgent", "high"}}

\* the counts of the whole tree, taken from the listings and the tasks
TreeTotals ==
  ("Spaces" :> Len(kids[Root]))
  @@ ("Folders" :> SumFn(NumKids, Level(1)))
  @@ ("Lists" :> SumFn(NumKids, Level(2)))
  @@ ("Total Tasks" :> SumFn(NumKids, Level(3)))
  @@ ("Overdue Tasks" :> SumFn([p \in Nodes |-> Cardinality(OverdueSeen(p))], Level(3)))
  @@ ("High Priority Tasks" :> SumFn([p \in Nodes |-> Cardinality(HighSeen(p))], Level(3)))

\* C1: when every fetch succeeded, the returned counts are those of the tree,
\* whatever the order in which as_completed handed over the siblings' results
C1_OrderIrrelevant ==
  (Success /\ FetchesOkBelow(Root)) => result = TreeTotals

\* two spaces with different records, the second one folded first
C1_Witness ==
  /\ Success /\ FetchesOkBelow(Root)
  /\ consumed[Root] = <<2, 1>>
  /\ acc[<<1>>] # acc[<<2>>]

\* own contribution plus the field-wise sum of the children's records
SumOfChildren(p) ==
  [f \in Fields |->
     OwnCount(p, Len(kids[p]))[f]
       + SumFn([q \in Nodes |-> acc[q][f]], Children(p))]

\* C2: the record a space or folder returns, and the one the workspace call
\* reports, is the field-wise sum of its children's records plus one per
\* immediate child in its own count
C2_ParentIsSumOfChildren ==
  /\ \A p \in Inner \ {Root} :
       (st[p] = "done" /\ FetchesOkBelow(p)) => acc[p] = SumOfChildren(p)
  /\ (Success /\ FetchesOkBelow(Root)) => result = Metrics(SumOfChildren(Root))

\* a space returned whose folder holds a list with tasks, and it was folded
\* into the workspace counters
C2_Witness ==
  /\ Success /\ FetchesOkBelow(Root)
  /\ st[<<1>>] = "done" /\ st[<<1, 1>>] = "done"
  /\ acc[<<1, 1>>].task_count > 0
  /\ acc[<<1>>].folder_count = 1 /\ acc[<<1>>].list_count = 1
  /\ result["Total Tasks"] = acc[<<1, 1>>].task_count

\* C3: the returned aggregate reports the completed tasks and the completion
\* rate of the tree next to its other counts
C3_ReportsCompletion ==
  (Success /\ acc[Root].completed_tasks > 0) =>
     /\ result["Total Tasks"] = acc[Root].task_count
     /\ "Completed Tasks" \in DOMAIN result
     /\ result["Completed Tasks"] = acc[Root].completed_tasks
     /\ "Completion Rate" \in DOMAIN result
     /\ result["Completion Rate"] = CompletionRate(acc[Root])

\* exactly one task fetch failed at transport level, with a sibling list that
\* succeeded, and every other fetch succeeded
OneListFailed ==
  /\ Cardinality({p \in Level(3) : outcome[p] = "transport"}) = 1
  /\ \A p \in Submitted : outcome[p] \in {"ok", "transport"}
  /\ \A p \in Level(0) \cup Level(1) \cup Level(2) : outcome[p] = "ok"
  /\ \E p, q \in Level(3) :
       /\ p # q /\ SubSeq(p, 1, 2) = SubSeq(q, 1, 2)
       /\ outcome[p] = "transport" /\ st[q] = "done"

\* C4: with one failed task fetch the analysis completes with the sums of the
\* lists that succeeded and exactly one recorded error
C4_PartialFailureContained ==
  (Returned /\ OneListFailed) =>
     /\ "Total Tasks" \in DOMAIN result
     /\ result["Total Tasks"] =
          SumFn(NumKids, {p \in Level(3) : st[p] = "done"})
     /\ "errors" \in DOMAIN result
     /\ Len(result["errors"]) = 1

\* C5: a failed root fetch, transport failure or non-200 answer, yields an
\* error and no further fetch
C5_RootFailureIsError ==
  (Returned /\ outcome[Root] \in {"transport", "rejected"}) =>
     /\ "error" \in DOMAIN result
     /\ Submitted = {Root}

\* C6: a transport failure of any fetch makes the returned value an error
C6_TransportSurfaced ==
  (Returned /\ \E p \in Nodes : outcome[p] = "transport") => Failed

\* a task fetch failed at transport level after a sibling list had returned
C6_Witness ==
  /\ Failed
  /\ \E p, q \in Level(3) :
       /\ p # q
       /\ outcome[p] = "transport" /\ st[q] = "done" /\ acc[q].task_count > 0

\* C7: a fetch answered with a non-200 status makes the returned value an error
C7_RejectedSurfaced ==
  (Returned /\ \E p \in Nodes : outcome[p] = "rejected") => Failed

\* C8: a list's overdue_tasks counts exactly the processed tasks that have a
\* due date earlier than the clock reading taken for them, whatever their
\* status; completed_tasks counts the completed ones among the same tasks
C8_OverdueIndependentOfStatus ==
  \A p \in Level(3) :
    /\ acc[p].overdue_tasks = Cardinality(OverdueSeen(p))
    /\ acc[p].completed_tasks = Cardinality(CompletedSeen(p))

\* a completed task with a due date in the past was counted as both
C8_Witness ==
  \E p \in Level(3) : \E i \in 1..Len(readAt[p]) :
    /\ i \in CompletedSeen(p) /\ i \in OverdueSeen(p)
    /\ acc[p].completed_tasks >= 1 /\ acc[p].overdue_tasks >= 1

Bounded(a) ==
  /\ 0 <= a.completed_tasks /\ a.completed_tasks <= a.task_count
  /\ 0 <= a.overdue_tasks /\ a.overdue_tasks <= a.task_count
  /\ 0 <= a.high_priority_tasks /\ a.high_priority_tasks <= a.task_count

\* C9: in every accumulator of every call, also between two tasks, between
\* two children and between two statements of one fold, and in the returned
\* dict, the classified counts lie between 0 and task_count
C9_CountsBounded ==
  /\ \A p \in Nodes : Bounded(acc[p])
  /\ \A p \in Inner : \A c \in Children(p) :
       (st[p] = "folding" /\ st[c] = "done") =>
          \A k \in 1..Len(FoldSteps(p, acc[p], acc[c])) :
             Bounded(FoldSteps(p, acc[p], acc[c])[k])
  /\ Success =>
       /\ 0 <= result["Overdue Tasks"]
       /\ result["Overdue Tasks"] <= result["Total Tasks"]
       /\ 0 <= result["High Priority Tasks"]
       /\ result["High Priority Tasks"] <= result["Total Tasks"]

\* a folder has folded one of its two lists, with completed tasks in it
C9_Witness ==
  \E p \in Level(2) :
    /\ st[p] = "folding"
    /\ Len(consumed[p]) = 1 /\ Len(kids[p]) = 2
    /\ acc[p].completed_tasks > 0
    /\ acc[p].completed_tasks = acc[p].task_count

FoldsZeroChild ==
  \E p \in Inner : \E c \in 1..Len(kids[p]) :
    /\ consumed'[p] = Append(consumed[p], c)
    /\ kids[Append(p, c)] = <<>>

NoChildrenIsZero ==
  /\ \A p \in Submitted \ {Root} :
       (st[p] = "done" /\ kids[p] = <<>>) =>
          /\ acc[p] = Zero
          /\ CompletionRate(acc[p]) = RateZero
  /\ (Success /\ kids[Root] = <<>>) =>
       /\ \A k \in DOMAIN result : result[k] = 0
       /\ task_completion_rate = RateZero

\* C10: a call whose listing is empty returns the all-zero record, with a
\* completion rate of 0, and folding such a record changes no counter of the
\* parent
C10_ZeroChildren ==
  /\ []NoChildrenIsZero
  /\ [][FoldsZeroChild => acc' = acc]_vars

\* the record of a list without tasks was folded into a folder that had
\* already counted tasks of another list
C10_Witness ==
  \E p \in Level(2) :
    /\ Len(consumed[p]) = 2
    /\ kids[Append(p, consumed[p][2])] = <<>>
    /\ st[Append(p, consumed[p][2])] = "done"
    /\ acc[p].task_count > 0

\* two doubles at most one unit in the last place apart
WithinOneUlp(x, y) == x = y \/ x = NextUp(y) \/ y = NextUp(x)

\* the double completed_tasks * 100 / task_count, one division rounded once
ScaledQuotient(a) == FDiv(100 * a.completed_tasks, a.task_count)

\* C11 as stated: the rate is completed_tasks * 100 / task_count when
\* task_count > 0 and 0 otherwise
C11_RateIsScaledQuotient ==
  Success =>
    task_completion_rate =
      IF acc[Root].task_count > 0 THEN ScaledQuotient(acc[Root]) ELSE FZero

\* C11: the rate is the double completed_tasks / task_count * 100, division
\* first: within one unit in the last place of completed_tasks * 100 /
\* task_count when task_count > 0, exactly 80 for 120 of 150, and 0 with no
\* division attempted when task_count = 0
C11_RateDividesFirst ==
  Success =>
    /\ task_completion_rate # ZeroDivision
    /\ acc[Root].task_count > 0 =>
         WithinOneUlp(task_completion_rate, ScaledQuotient(acc[Root]))
    /\ acc[Root].task_count = 0 => task_completion_rate = FZero
    /\ (acc[Root].task_count = 150 /\ acc[Root].completed_tasks = 120) =>
         task_completion_rate = FDiv(80, 1)

\* 120 completed tasks of 150 gave the double 80
C11_Witness ==
  /\ Success
  /\ acc[Root].task_count = 150 /\ acc[Root].completed_tasks = 120
  /\ task_completion_rate = FDiv(80, 1)
  /\ task_completion_rate = ScaledQuotient(acc[Root])

\* the second call has returned a metrics record, as the first one did
SecondReturned == run = 2 /\ Success

\* no task of the tree carries a due date
NoDueDates ==
  \A p \in Level(3) : \A i \in 1..Len(kids[p]) : ~Truthy(kids[p][i].due_date)

\* C12 as stated: two calls against the same remote state, all fetches
\* succeeding, return the same dict in every field, whenever they are executed
C12_RunsIdentical == SecondReturned => result = first

\* C12: two calls against the same remote state, all fetches succeeding,
\* return the same Spaces, Folders, Lists, Total Tasks and High Priority
\* Tasks; Overdue Tasks is compared with the clock of each call and is the
\* same too when no task has a due date
C12_RunsIdenticalButOverdue ==
  SecondReturned =>
    /\ \A f \in DOMAIN result \ {"Overdue Tasks"} : result[f] = first[f]
    /\ DOMAIN result = DOMAIN first
    /\ NoDueDates => result = first

\* a due date passed between the two calls: the second call counts more
\* overdue tasks than the first
C12_Witness ==
  /\ SecondReturned
  /\ result["Total Tasks"] > 0
  /\ result["Overdue Tasks"] > first["Overdue Tasks"]

\* a call below the team that is running or waiting for a worker thread
Blocked(p) == p # Root /\ st[p] \in {"queued", "folding", "unwind"}

OwnStep(p) ==
  \/ st[p] = "queued" /\ st'[p] = "folding"
  \/ /\ st[p] = "folding" /\ st'[p] = "folding"
     /\ \/ Len(readAt'[p]) = Len(readAt[p]) + 1
        \/ Len(consumed'[p]) = Len(consumed[p]) + 1

\* the step folds the record returned by a finished child into p
FoldsReturned(p) ==
  Len(consumed'[p]) = Len(consumed[p]) + 1 =>
    LET c == Append(p, Last(consumed'[p]))
    IN /\ st[c] = "done"
       /\ acc'[c] = acc[c]
       /\ acc'[p] = FoldChild(p, acc[p], acc[c])

\* C14: the counters of a call are written only by a step of that call's
\* own thread; one step writes the counters of one call only; a call that has
\* finished is not written any more; and what a parent takes from a child
\* is the record the finished child returned
C14_AccumulatorOwned ==
  [][\A p \in Nodes :
       /\ acc'[p] # acc[p] =>
            /\ OwnStep(p)
            /\ \A q \in Nodes \ {p} : acc'[q] = acc[q]
       /\ st[p] \in {"done", "raised", "unwind"} => acc'[p] = acc[p]
       /\ FoldsReturned(p)]_vars

\* a folder has folded one list's tasks in while its other list is counting
C14_Witness ==
  \E p \in Level(2) :
    /\ st[p] = "folding"
    /\ Len(consumed[p]) = 1
    /\ acc[p].task_count > 0 /\ acc[p].completed_tasks > 0
    /\ \E q \in Children(p) :
         st[q] = "folding" /\ Len(readAt[q]) = 1 /\ acc[q].completed_tasks > 0

\* the call at occurrence i of p's listing
Occurrence(p, i) == Append(p, i)

\* every occurrence in p's listing, repeated identifiers included, was
\* aggregated by a call of its own and folded into p once
EachOccurrenceFolded(p) ==
  /\ Len(consumed[p]) = Len(kids[p])
  /\ {consumed[p][i] : i \in 1..Len(consumed[p])} = 1..Len(kids[p])
  /\ \A i \in 1..Len(kids[p]) : st[Occurrence(p, i)] = "done"
  /\ \A f \in Fields :
       acc[p][f] = OwnCount(p, Len(kids[p]))[f]
                     + SumFn([i \in 1..Len(kids[p]) |-> acc[Occurrence(p, i)][f]],
                             1..Len(kids[p]))

\* C15: a returned space, folder or workspace call has aggregated and folded
\* every occurrence of its listing, an identifier listed k times k times,
\* and counted k children for it
C15_DuplicatesAggregatedEach ==
  \A p \in Inner :
    (st[p] = "done" /\ (p = Root => Success)) => EachOccurrenceFolded(p)

\* a folder listed the same list identifier twice; both occurrences were
\* aggregated, with tasks, and the folder returned
C15_Witness ==
  \E p \in Level(2) :
    /\ st[p] = "done"
    /\ Len(kids[p]) = 2 /\ kids[p][1] = kids[p][2]
    /\ acc[p].list_count = 2
    /\ acc[Occurrence(p, 1)].task_count > 0 /\ acc[Occurrence(p, 2)].task_count > 0
    /\ acc[p].task_count
         = acc[Occurrence(p, 1)].task_count + acc[Occurrence(p, 2)].task_count

\* some call below the workspace call ended with an exception
SomeChildFailed == \E p \in Nodes \ {Root} : st[p] = "raised"

\* C16: when the aggregation of a child ended with an exception, the call
\* that waits for it folds nothing after it has met the exception, and
\* what fetch_workspace_details returns is the error dict, which carries no
\* count of any sibling, folded before or after
C16_SiblingsDiscarded ==
  /\ [](Returned /\ SomeChildFailed => result = ErrorResult)
  /\ [][\A p \in Nodes :
          st[p] \in {"unwind", "raised"} =>
            acc'[p] = acc[p] /\ consumed'[p] = consumed[p]]_vars

\* one space failed, the other one had been folded into the workspace
\* counters with its folder; the call returned the error dict
C16_Witness ==
  /\ Failed
  /\ st[<<2>>] = "raised"
  /\ consumed[Root] = <<1>>
  /\ acc[Root].folder_count > 0
  /\ result = ErrorResult

\* the listing fetch of p's parent was answered with a listing that has an
\* entry for p
ListedByParent(p) ==
  /\ st[Parent(p)] \notin {"idle", "queued"}
  /\ outcome[Parent(p)] = "ok"
  /\ Last(p) \in 1..Len(kids[Parent(p)])

\* every child of p has returned its record and p has taken it
ChildrenFoldedIn(p) ==
  \A i \in 1..Len(kids[p]) :
    /\ st[Append(p, i)] = "done"
    /\ \E j \in 1..Len(consumed[p]) : consumed[p][j] = i

\* C17: a call below the workspace call is submitted only after the listing
\* fetch of its parent was answered, and a space, a folder or the workspace
\* call returns a record only after each of its children returned and was
\* folded in
C17_DownThenUp ==
  /\ \A p \in Submitted \ {Root} : ListedByParent(p)
  /\ \A p \in Inner :
       (st[p] = "done" /\ (p = Root => Success)) => ChildrenFoldedIn(p)

\* a space has returned after its two folders, the second one taken first,
\* while the workspace call has not taken the space yet
C17_Witness ==
  \E p \in Level(1) :
    /\ st[p] = "done" /\ st[Root] = "folding"
    /\ consumed[p] = <<2, 1>>
    /\ consumed[Root] = <<>>

\* C19: when fetch_workspace_details has returned, with the metrics dict or
\* with the error dict, no call it submitted at any level is queued, waits
\* for its fetch or is running
C19_PoolsDrained ==
  Returned => \A p \in Submitted \ {Root} : Finished(p) /\ ~Blocked(p)

\* the call returned the error dict after a space raised; the other space,
\* with a folder of its own, had finished meanwhile and was never taken
C19_Witness ==
  /\ Failed
  /\ st[<<1>>] = "raised" /\ st[<<2>>] = "done"
  /\ consumed[Root] = <<>>
  /\ st[<<2, 1>>] = "done"

\* get_ai_recommendations has returned and line 326 has assigned its result
Recommended == pc = "end" /\ recommendations # Unbound

\* C18: what get_ai_recommendations returns is the text of the model or an
\* error string, never None, with the LLM key configured or not
C18_AlwaysText ==
  Recommended => recommendations \in {ModelText, RecommendationsError}

\* C20: when the button handler runs, workspace_id has been assigned, a
\* workspace id or None
C20_WorkspaceIdAssigned ==
  pc = "handler" => workspace_id # Unbound

====
